---- MODULE Spec2Model ----
(***************************************************************************)
(* State-machine model of the customer-commerce ETL pipeline:              *)
(*   etl/etl_pipeline.py  (load_raw_data, run_etl)                         *)
(*   etl/utils/helpers.py (build_date_dimension, load_dimension_table,     *)
(*                         load_fact_sales, apply_validations)             *)
(*                                                                         *)
(* A DataFrame is a sequence of records (one record per row, one field per *)
(* column).  A nullable cell is <<>> (NaN / NaT / pd.NA) or <<v>>.  Text   *)
(* cells are sequences of one-character strings so that sorting, trimming  *)
(* and casing are computed.  Money is counted in integer cents and dates   *)
(* are day numbers of November 2025 (day 1 is Saturday 2025-11-01).        *)
(***************************************************************************)
EXTENDS Integers, Sequences, FiniteSets, TLC

\* ------------------------------------------------------------------------
\* Bounds of the model
\* ------------------------------------------------------------------------
MaxRows == 2

MaxRuns == 2

MaxValRows == 2

MaxConcRows == 1

MaxDimRows == 3

\* ------------------------------------------------------------------------
\* Cells, text and generic sequence helpers
\* ------------------------------------------------------------------------
None == <<>>

Some(v) == <<v>>

IsNull(cell) == cell = None

Range(s) == {s[i] : i \in 1..Len(s)}

Abs(x) == IF x < 0 THEN 0 - x ELSE x

Max2(a, b) == IF a >= b THEN a ELSE b

RECURSIVE Flatten(_)
Flatten(ss) == IF ss = <<>> THEN <<>> ELSE Head(ss) \o Flatten(Tail(ss))

\* Code points of the characters used in text cells (Python compares str by
\* code point).
Ord(c) ==
    CASE c = " " -> 32
      [] c = "A" -> 65
      [] c = "B" -> 66
      [] c = "X" -> 88
      [] c = "Y" -> 89
      [] c = "a" -> 97
      [] c = "b" -> 98
      [] c = "x" -> 120
      [] c = "y" -> 121

Upper(c) ==
    CASE c = "a" -> "A"
      [] c = "b" -> "B"
      [] c = "x" -> "X"
      [] c = "y" -> "Y"
      [] OTHER -> c

Lower(c) ==
    CASE c = "A" -> "a"
      [] c = "B" -> "b"
      [] c = "X" -> "x"
      [] c = "Y" -> "y"
      [] OTHER -> c

IsSpace(c) == c = " "

\* Python str ordering: s < t.
RECURSIVE StrLess(_, _)
StrLess(s, t) ==
    IF t = <<>> THEN FALSE
    ELSE IF s = <<>> THEN TRUE
    ELSE IF Ord(Head(s)) # Ord(Head(t)) THEN Ord(Head(s)) < Ord(Head(t))
    ELSE StrLess(Tail(s), Tail(t))

\* Ordering of nullable text cells that are not null.
CellLess(a, b) == StrLess(a[1], b[1])

\* The least element of a non-empty set of text cells.
MinCell(S) == CHOOSE a \in S : \A b \in S : a = b \/ CellLess(a, b)

\* The elements of a set of text cells in ascending order.
RECURSIVE SortCells(_)
SortCells(S) ==
    IF S = {} THEN <<>>
    ELSE LET m == MinCell(S) IN <<m>> \o SortCells(S \ {m})

\* str.strip()
RECURSIVE LStrip(_)
LStrip(s) == IF s # <<>> /\ IsSpace(Head(s)) THEN LStrip(Tail(s)) ELSE s

RECURSIVE RStrip(_)
RStrip(s) ==
    IF s # <<>> /\ IsSpace(s[Len(s)]) THEN RStrip(SubSeq(s, 1, Len(s) - 1)) ELSE s

Strip(s) == RStrip(LStrip(s))

\* str.replace(r"\s+", " ", regex=True)
RECURSIVE CollapseSpaces(_)
CollapseSpaces(s) ==
    IF s = <<>> THEN <<>>
    ELSE IF IsSpace(Head(s))
         THEN <<" ">> \o CollapseSpaces(LStrip(Tail(s)))
         ELSE <<Head(s)>> \o CollapseSpaces(Tail(s))

\* str.title(): a letter that follows a non-letter is upper-cased, any
\* other letter is lower-cased.
Title(s) ==
    [i \in 1..Len(s) |->
        IF i = 1 \/ IsSpace(s[i - 1]) THEN Upper(s[i]) ELSE Lower(s[i])]

\* helpers.py:92-97, applied to one cell of the category column
CanonCategory(cell) ==
    IF IsNull(cell) THEN cell ELSE Some(Title(CollapseSpaces(Strip(cell[1]))))

\* DataFrame.drop_duplicates(): keep the first of equal rows, in order.
RECURSIVE DropDuplicates(_)
DropDuplicates(df) ==
    IF df = <<>> THEN <<>>
    ELSE LET init == DropDuplicates(SubSeq(df, 1, Len(df) - 1))
             last == df[Len(df)]
         IN IF last \in Range(init) THEN init ELSE Append(init, last)

\* df[[c1, c2, ...]]
Project(row, cols) == [c \in cols |-> row[c]]

\* df.drop(columns=...)
DropColumns(row, cols) == [c \in (DOMAIN row) \ cols |-> row[c]]

\* df[name] = value
WithColumn(row, name, value) ==
    [c \in (DOMAIN row) \cup {name} |-> IF c = name THEN value ELSE row[c]]

\* ------------------------------------------------------------------------
\* Raw records (etl_pipeline.py:22-59, load_raw_data)
\* ------------------------------------------------------------------------
MeasureColumns ==
    {"final_quantity", "total_revenue", "price_reductions", "refunds",
     "final_revenue", "sales_tax", "overall_revenue", "refunded_item_count",
     "purchased_item_count"}

RawColumns ==
    {"transaction_id", "buyer_id", "item_code", "item_id", "item_name",
     "category", "version", "date"} \cup MeasureColumns

\* helpers.py:222, the columns whose name starts with "chk_"
ChkColumns == {"chk_rev1", "chk_rev2", "chk_qty"}

\* One typed raw row: identifier and date cells are nullable, text cells are
\* character sequences, m holds the nine measures.
RawRow(tid, buyer, code, id, name, cat, ver, date, m) ==
    [transaction_id |-> tid, buyer_id |-> buyer, item_code |-> Some(code),
     item_id |-> id, item_name |-> Some(name), category |-> Some(cat),
     version |-> Some(ver), date |-> date,
     final_quantity |-> m.final_quantity, total_revenue |-> m.total_revenue,
     price_reductions |-> m.price_reductions, refunds |-> m.refunds,
     final_revenue |-> m.final_revenue, sales_tax |-> m.sales_tax,
     overall_revenue |-> m.overall_revenue,
     refunded_item_count |-> m.refunded_item_count,
     purchased_item_count |-> m.purchased_item_count]

\* pd.read_csv gives the frame a RangeIndex 0..n-1 (etl_pipeline.py:37-42).
WithRangeIndex(rows) ==
    [i \in 1..Len(rows) |-> WithColumn(rows[i], "index", i - 1)]

\* ------------------------------------------------------------------------
\* build_date_dimension (helpers.py:56-77)
\* ------------------------------------------------------------------------
\* series = df[col].dropna()
ValidDates(df) == {df[i].date[1] : i \in {j \in 1..Len(df) : ~IsNull(df[j].date)}}

\* helpers.py:63-64
NoValidDates(df) == ValidDates(df) = {}

MinOf(S) == CHOOSE x \in S : \A y \in S : x <= y

MaxOf(S) == CHOOSE x \in S : \A y \in S : x >= y

\* dates.weekday for day d of November 2025 (Monday is 0)
Weekday(d) == (d + 4) % 7

\* helpers.py:69-76, one row of the date dimension
DateRow(d) ==
    [full_date |-> Some(d), year |-> 2025, quarter |-> 4, month |-> 11,
     day |-> d, is_weekend |-> Weekday(d) >= 5]

\* Mutant of build_date_dimension: the range leaves out its last day
\* (date_range with inclusive="left").
build_date_dimension_open(df) ==
    LET min_date == MinOf(ValidDates(df))
        max_date == MaxOf(ValidDates(df))
    IN [i \in 1..(max_date - min_date) |-> DateRow(min_date + i - 1)]

\* helpers.py:66-77, defined when ~NoValidDates(df)
build_date_dimension(df) ==
    LET min_date == MinOf(ValidDates(df))
        max_date == MaxOf(ValidDates(df))
    IN [i \in 1..(max_date - min_date + 1) |-> DateRow(min_date + i - 1)]

\* ------------------------------------------------------------------------
\* load_dimension_table (helpers.py:79-135)
\* ------------------------------------------------------------------------
ItemColumns == {"item_code", "item_id", "item_name", "category", "version"}

\* helpers.py:86-97
ItemFrame(df, config) ==
    [i \in 1..Len(df) |->
        LET row == Project(df[i], ItemColumns)
        IN IF config.canonicalize_category
           THEN [row EXCEPT !.category = CanonCategory(row.category)]
           ELSE row]

\* Series.mode(): the most frequent non-null values, in ascending order.
SeriesMode(series) ==
    LET vals == {series[i] : i \in {j \in 1..Len(series) : ~IsNull(series[j])}}
        Count(v) == Cardinality({i \in 1..Len(series) : series[i] = v})
        top == {v \in vals : \A w \in vals : Count(v) >= Count(w)}
    IN SortCells(top)

\* Mutant of canon: the last of the modes is taken (mode.iloc[-1]).
canon_last(series) ==
    LET mode == SeriesMode(series)
    IN IF mode # <<>> THEN mode[Len(mode)] ELSE series[1]

\* helpers.py:101-103
canon(series) ==
    LET mode == SeriesMode(series)
    IN IF mode # <<>> THEN mode[1] ELSE series[1]

\* Mutant of GroupFirst: the entry of the first row of the group, null or not
\* (first(skipna=False), or .iloc[0]).
GroupFirstRow(series) == series[1]

\* GroupBy "first": the first non-null entry of the column in the group,
\* null when the group has none.
GroupFirst(series) ==
    LET nn == SelectSeq(series, LAMBDA c : ~IsNull(c))
    IN IF nn = <<>> THEN None ELSE nn[1]

Column(df, name) == [i \in 1..Len(df) |-> df[i][name]]

\* helpers.py:105-110: groupby sorts the group keys and leaves out null keys.
GroupByItemCode(item_df) ==
    LET codes == SortCells({item_df[i].item_code :
                     i \in {j \in 1..Len(item_df) : ~IsNull(item_df[j].item_code)}})
    IN [k \in 1..Len(codes) |->
          LET grp == SelectSeq(item_df, LAMBDA r : r.item_code = codes[k])
          IN [item_code |-> codes[k],
              item_id   |-> GroupFirst(Column(grp, "item_id")),
              item_name |-> canon(Column(grp, "item_name")),
              category  |-> canon(Column(grp, "category")),
              version   |-> canon(Column(grp, "version"))]]

\* dropna(subset=["item_id"])
DropNullItemId(item_df) == SelectSeq(item_df, LAMBDA r : ~IsNull(r.item_id))

\* helpers.py:99-120, dim == "item"
load_item_dimension(df, config) ==
    IF config.item_attributes = "mode"
    THEN DropNullItemId(GroupByItemCode(ItemFrame(df, config)))
    ELSE DropDuplicates(DropNullItemId(ItemFrame(df, config)))

\* helpers.py:122-132, dim == "buyer"
load_buyer_dimension(df) ==
    SelectSeq(DropDuplicates([i \in 1..Len(df) |-> Project(df[i], {"buyer_id"})]),
              LAMBDA r : ~IsNull(r.buyer_id))

\* ------------------------------------------------------------------------
\* apply_validations (helpers.py:180-224)
\* ------------------------------------------------------------------------
\* helpers.py:196-198
CheckRevenueBalance(df, config) ==
    IF config.checks.revenue_balance
    THEN SelectSeq(
           [i \in 1..Len(df) |->
               WithColumn(df[i], "chk_rev1",
                   df[i].total_revenue + df[i].price_reductions + df[i].refunds)],
           LAMBDA r : Abs(r.final_revenue - r.chk_rev1) <= config.tolerance)
    ELSE df

\* helpers.py:201-203
CheckOverallBalance(df, config) ==
    IF config.checks.overall_balance
    THEN SelectSeq(
           [i \in 1..Len(df) |->
               WithColumn(df[i], "chk_rev2", df[i].final_revenue + df[i].sales_tax)],
           LAMBDA r : Abs(r.overall_revenue - r.chk_rev2) <= config.tolerance)
    ELSE df

\* helpers.py:205-207
CheckQuantityBalance(df, config) ==
    IF config.checks.quantity_balance
    THEN SelectSeq(
           [i \in 1..Len(df) |->
               WithColumn(df[i], "chk_qty",
                   df[i].purchased_item_count + df[i].refunded_item_count)],
           LAMBDA r : r.final_quantity = r.chk_qty)
    ELSE df

\* Mutant of CheckRefundedNonpositive: a zero refund count is rejected too.
CheckRefundedNegative(df, config) ==
    IF config.checks.refunded_nonpositive
    THEN SelectSeq(df, LAMBDA r : r.refunded_item_count < 0)
    ELSE df

\* helpers.py:209-210
CheckRefundedNonpositive(df, config) ==
    IF config.checks.refunded_nonpositive
    THEN SelectSeq(df, LAMBDA r : r.refunded_item_count <= 0)
    ELSE df

\* helpers.py:196-210, the four filters in sequence
Filtered(df, config) ==
    CheckRefundedNonpositive(
        CheckQuantityBalance(
            CheckOverallBalance(
                CheckRevenueBalance(df, config), config), config), config)

\* Mutant of DropRateExceeds: the comparison is not strict.
DropRateReaches(start_rows, end_rows, max_err) ==
    (start_rows - end_rows) * max_err.den >= max_err.num * Max2(start_rows, 1)

\* helpers.py:212-218: drop_rate > max_err, with drop_rate = dropped /
\* max(start_rows, 1) and max_err the rational num / den.
DropRateExceeds(start_rows, end_rows, max_err) ==
    (start_rows - end_rows) * max_err.den > max_err.num * Max2(start_rows, 1)

\* helpers.py:222
StripChecks(df) == [i \in 1..Len(df) |-> DropColumns(df[i], ChkColumns)]

\* helpers.py:223
Rejected(df_original, df_cleaned) ==
    LET kept == {df_cleaned[i].index : i \in 1..Len(df_cleaned)}
    IN SelectSeq(df_original, LAMBDA r : r.index \notin kept)

\* helpers.py:190-224: the outcome of apply_validations(df, config)
apply_validations(df, config) ==
    LET out        == Filtered(df, config)
        df_cleaned == StripChecks(out)
    IN [raised     |-> DropRateExceeds(Len(df), Len(out), config.max_error_rate),
        df_cleaned |-> df_cleaned,
        rejected   |-> Rejected(df, df_cleaned)]

\* ------------------------------------------------------------------------
\* The warehouse (storage collaborator: pd.read_sql / DataFrame.to_sql)
\* ------------------------------------------------------------------------
DimTables == {"dim_date", "dim_item", "dim_buyer"}

Tables == DimTables \cup {"fact_sales"}

EmptyTables == [t \in Tables |-> <<>>]

\* The surrogate-key column the warehouse fills in for each dimension table.
KeyColumn(table) ==
    CASE table = "dim_date"  -> "date_key"
      [] table = "dim_item"  -> "item_key"
      [] table = "dim_buyer" -> "buyer_key"

\* The natural-key column of each dimension (etl_pipeline.py:138,153,166).
NaturalKey(table) ==
    CASE table = "dim_date"  -> "full_date"
      [] table = "dim_item"  -> "item_code"
      [] table = "dim_buyer" -> "buyer_id"

\* The rows as the warehouse stores them: a dimension row gets the next
\* values of the table's key sequence, a fact row is stored as given.
Stored(table, rows, last_key) ==
    IF table \in DimTables
    THEN [i \in 1..Len(rows) |-> WithColumn(rows[i], KeyColumn(table), last_key + i)]
    ELSE rows

\* ------------------------------------------------------------------------
\* Reconciliation and fact resolution
\* ------------------------------------------------------------------------
\* left.merge(right, on=key, how="left", indicator=True): one output row
\* per matching right row, or one "left_only" row when nothing matches.
MergeIndicator(left, right, key) ==
    Flatten([i \in 1..Len(left) |->
        LET hits == SelectSeq(right, LAMBDA e : e[key] = left[i][key])
        IN IF hits = <<>>
           THEN <<WithColumn(left[i], "_merge", "left_only")>>
           ELSE [j \in 1..Len(hits) |-> WithColumn(left[i], "_merge", "both")]])

\* Mutant of QueryLeftOnly: the filter keeps the matched rows.
QueryBoth(merged) == SelectSeq(merged, LAMBDA r : r._merge = "both")

\* .query("_merge == 'left_only'")
QueryLeftOnly(merged) == SelectSeq(merged, LAMBDA r : r._merge = "left_only")

\* Mutant of NewRows: every candidate is appended, persisted or not.
NewRowsUnreconciled(candidates, existing, key) == candidates

\* etl_pipeline.py:141-145, 154-158, 167-171
NewRows(candidates, existing, key) ==
    LET kept == QueryLeftOnly(MergeIndicator(candidates, existing, key))
    IN [i \in 1..Len(kept) |-> DropColumns(kept[i], {"_merge"})]

\* df.merge(dim[[right_on, key_col]], how="left", left_on=..., right_on=...):
\* the surrogate key of every matching dimension row, null without a match.
MergeKey(df, dim, left_on, right_on, key_col) ==
    Flatten([i \in 1..Len(df) |->
        LET hits == SelectSeq(dim, LAMBDA d : d[right_on] = df[i][left_on])
        IN IF hits = <<>>
           THEN <<WithColumn(df[i], key_col, None)>>
           ELSE [j \in 1..Len(hits) |->
                    WithColumn(df[i], key_col, Some(hits[j][key_col]))]])

FactKeys == {"date_key", "item_key", "buyer_key"}

FactColumns == FactKeys \cup {"transaction_id"} \cup MeasureColumns

\* Mutant of DropNullFact: transaction_id is left out of the subset.
DropNullFactKeys(fact) ==
    SelectSeq(fact, LAMBDA f : \A c \in FactKeys : ~IsNull(f[c]))

\* helpers.py:160-174: dropna(subset=[date_key, item_key, buyer_key,
\* transaction_id])
DropNullFact(fact) ==
    SelectSeq(fact, LAMBDA f : \A c \in FactKeys \cup {"transaction_id"} : ~IsNull(f[c]))

\* helpers.py:152-174
BuildFact(df, d_date, d_item, d_buyer) ==
    LET m1 == MergeKey(df, d_date, "date", "full_date", "date_key")
        m2 == MergeKey(m1, d_item, "item_code", "item_code", "item_key")
        m3 == MergeKey(m2, d_buyer, "buyer_id", "buyer_id", "buyer_key")
    IN DropNullFact([i \in 1..Len(m3) |-> Project(m3[i], FactColumns)])

\* helpers.py:156-158, the rows counted in the missing-FK warning
MissingFk(df, d_date, d_item, d_buyer) ==
    LET m1 == MergeKey(df, d_date, "date", "full_date", "date_key")
        m2 == MergeKey(m1, d_item, "item_code", "item_code", "item_key")
        m3 == MergeKey(m2, d_buyer, "buyer_id", "buyer_id", "buyer_key")
    IN SelectSeq(m3, LAMBDA f : \E c \in FactKeys : IsNull(f[c]))

\* Mutant of IsDryRun: the flag is not honoured.
IsDryRunIgnored(cfg) == FALSE

\* etl_pipeline.py:113
IsDryRun(cfg) == cfg.dry_run

\* ------------------------------------------------------------------------
\* Inputs: raw exports and configurations
\* ------------------------------------------------------------------------
\* Measures that pass the four checks (the scenario of the test suite:
\* 100 - 10 + 0 = 90, 90 + 9 = 99, 1 = 1 + 0).
BalancedMeasures ==
    [final_quantity |-> 1, total_revenue |-> 100, price_reductions |-> -10,
     refunds |-> 0, final_revenue |-> 90, sales_tax |-> 9,
     overall_revenue |-> 99, refunded_item_count |-> 0,
     purchased_item_count |-> 1]

\* The same with final_revenue 95: fails revenue_balance.
UnbalancedMeasures == [BalancedMeasures EXCEPT !.final_revenue = 95]

\* The rows a raw export of the pipeline runs is made of: two observations
\* of item A that disagree on name and category spelling, a row without
\* transaction id, a row without buyer and item id, a row without date and
\* a row with unbalanced revenue.
SeedRow ==
    RawRow(Some(1), Some(1), <<"A">>, Some(10), <<"y">>, <<"a", " ", "b">>,
           <<"a">>, Some(1), BalancedMeasures)

RawPool ==
    { SeedRow,
      RawRow(Some(2), Some(2), <<"A">>, Some(10), <<"x">>, <<" ", "A", " ", " ", "B">>,
             <<"a">>, Some(3), BalancedMeasures),
      RawRow(None, Some(1), <<"B">>, Some(20), <<"x">>, <<"b">>,
             <<"b">>, Some(1), BalancedMeasures),
      RawRow(Some(4), None, <<"B">>, None, <<"x">>, <<"b">>,
             <<"a">>, Some(3), BalancedMeasures),
      RawRow(Some(5), Some(1), <<"A">>, Some(10), <<"x">>, <<"a", " ", "b">>,
             <<"a">>, None, BalancedMeasures),
      RawRow(Some(6), Some(2), <<"B">>, Some(20), <<"y">>, <<"b">>,
             <<"b">>, Some(1), UnbalancedMeasures) }

SeqsUpTo(S, n) == UNION {[1..k -> S] : k \in 0..n}

RawInputs == {WithRangeIndex(rows) : rows \in SeqsUpTo(RawPool, MaxRows)}

AllChecks ==
    [revenue_balance |-> TRUE, overall_balance |-> TRUE,
     quantity_balance |-> TRUE, refunded_nonpositive |-> TRUE]

\* Configurations of the pipeline runs: both item strategies, dry run or
\* persist, every check enabled, tolerance one cent, max_error_rate 0.5.
PipelineConfigs ==
    [item_attributes : {"mode", "first-occurrence"},
     canonicalize_category : {TRUE},
     dry_run : BOOLEAN,
     checks : {AllChecks},
     tolerance : {1},
     max_error_rate : {[num |-> 1, den |-> 2]}]

SeedConfig ==
    [item_attributes |-> "mode", canonicalize_category |-> TRUE, dry_run |-> FALSE,
     checks |-> AllChecks, tolerance |-> 1, max_error_rate |-> [num |-> 1, den |-> 2]]

\* What one persist run on the export <<SeedRow>> leaves in an empty
\* warehouse: an earlier load.
SeedWarehouse ==
    LET raw   == WithRangeIndex(<<SeedRow>>)
        dates == Stored("dim_date", build_date_dimension(raw), 0)
        items == Stored("dim_item", load_item_dimension(raw, SeedConfig), 0)
        buyrs == Stored("dim_buyer", load_buyer_dimension(raw), 0)
    IN [dim_date   |-> dates,
        dim_item   |-> items,
        dim_buyer  |-> buyrs,
        fact_sales |-> BuildFact(apply_validations(raw, SeedConfig).df_cleaned,
                                 dates, items, buyrs)]

\* The warehouse a behaviour starts from: empty, or holding an earlier load.
InitialWarehouses == {EmptyTables, SeedWarehouse}

\* ------------------------------------------------------------------------
\* State
\* ------------------------------------------------------------------------
Procs == {1, 2}

\* Runs serialized by the caller use one process.
SerialProcs == {1}

VARIABLES
    db,            \* committed rows of each warehouse table
    seqno,         \* last surrogate key handed out, per dimension table
    runs,          \* number of runs started
    pc,            \* per process: position of run_etl
    df_raw,        \* per process: the typed raw frame
    config,        \* per process: the loaded configuration
    dim_date,      \* per process: date dimension candidates
    dim_item,      \* per process: item dimension candidates
    dim_buyer,     \* per process: buyer dimension candidates
    df_validated,  \* per process: accepted fact candidates
    rejected,      \* per process: rejected rows
    new_dates,     \* per process: delta of dim_date
    new_items,     \* per process: delta of dim_item
    new_buyers,    \* per process: delta of dim_buyer
    tx,            \* per process: rows appended in the open transaction
    ops,           \* per process: warehouse operations issued by the run
    connected,     \* per process: connect_postgres was called
    error,         \* per process: the fatal error of a failed run
    rerun,         \* per process: the run repeats the previous persisted run
    db_at_start    \* per process: the warehouse when the run started

artifacts == <<dim_date, dim_item, dim_buyer, df_validated, rejected>>

deltas == <<new_dates, new_items, new_buyers>>

inputs == <<df_raw, config, rerun, db_at_start, runs>>

vars == <<db, seqno, pc, tx, ops, connected, error, artifacts, deltas, inputs>>

Terminal == {"Idle", "DryRunComplete", "Persisted", "Failed"}

\* Mutant of ReadSql: the read goes through another connection and does not
\* see the rows of the open transaction.
ReadSqlCommitted(r, table) == db[table]

\* pd.read_sql inside the run's transaction: the committed rows and the
\* rows the run itself has appended.
ReadSql(r, table) == db[table] \o tx[r][table]

SelectColumn(rows, col) == [i \in 1..Len(rows) |-> Project(rows[i], {col})]

Goto(r, label) == pc' = [pc EXCEPT ![r] = label]

Issue(r, op, table) == ops' = [ops EXCEPT ![r] = Append(@, <<op, table>>)]

\* DataFrame.to_sql(table, conn, if_exists="append")
ToSql(r, table, rows) ==
    /\ tx' = [tx EXCEPT ![r][table] = @ \o Stored(table, rows, seqno[table])]
    /\ seqno' = [seqno EXCEPT ![table] = @ + Len(rows)]
    /\ Issue(r, "append", table)

\* No run has started and nothing has been read or written.
IdleRuns ==
    /\ runs = 0
    /\ new_dates = [r \in Procs |-> <<>>]
    /\ new_items = [r \in Procs |-> <<>>]
    /\ new_buyers = [r \in Procs |-> <<>>]
    /\ tx = [r \in Procs |-> EmptyTables]
    /\ ops = [r \in Procs |-> <<>>]
    /\ connected = [r \in Procs |-> FALSE]
    /\ error = [r \in Procs |-> "none"]
    /\ rerun = [r \in Procs |-> FALSE]

Init ==
    /\ db \in InitialWarehouses
    /\ seqno = [t \in DimTables |-> Len(db[t])]
    /\ IdleRuns
    /\ df_raw = [r \in Procs |-> <<>>]
    /\ config = [r \in Procs |-> SeedConfig]
    /\ pc = [r \in Procs |-> "Idle"]
    /\ dim_date = [r \in Procs |-> <<>>]
    /\ dim_item = [r \in Procs |-> <<>>]
    /\ dim_buyer = [r \in Procs |-> <<>>]
    /\ df_validated = [r \in Procs |-> <<>>]
    /\ rejected = [r \in Procs |-> <<>>]
    /\ db_at_start = [r \in Procs |-> db]

\* ------------------------------------------------------------------------
\* run_etl (etl_pipeline.py:61-181), one action per stage
\* ------------------------------------------------------------------------
\* etl_pipeline.py:66-81: load the configuration and the raw export.
StartRun(r) ==
    /\ pc[r] \in Terminal
    /\ runs < MaxRuns
    /\ \E raw \in RawInputs, cfg \in PipelineConfigs :
          /\ df_raw' = [df_raw EXCEPT ![r] = raw]
          /\ config' = [config EXCEPT ![r] = cfg]
          /\ rerun' = [rerun EXCEPT ![r] =
                          pc[r] = "Persisted" /\ df_raw[r] = raw /\ config[r] = cfg]
    /\ runs' = runs + 1
    /\ db_at_start' = [db_at_start EXCEPT ![r] = db]
    /\ dim_date' = [dim_date EXCEPT ![r] = <<>>]
    /\ dim_item' = [dim_item EXCEPT ![r] = <<>>]
    /\ dim_buyer' = [dim_buyer EXCEPT ![r] = <<>>]
    /\ df_validated' = [df_validated EXCEPT ![r] = <<>>]
    /\ rejected' = [rejected EXCEPT ![r] = <<>>]
    /\ new_dates' = [new_dates EXCEPT ![r] = <<>>]
    /\ new_items' = [new_items EXCEPT ![r] = <<>>]
    /\ new_buyers' = [new_buyers EXCEPT ![r] = <<>>]
    /\ tx' = [tx EXCEPT ![r] = EmptyTables]
    /\ ops' = [ops EXCEPT ![r] = <<>>]
    /\ connected' = [connected EXCEPT ![r] = FALSE]
    /\ error' = [error EXCEPT ![r] = "none"]
    /\ Goto(r, "Loaded")
    /\ UNCHANGED <<db, seqno>>

\* etl_pipeline.py:86-96: the three dimension candidate sets; the date
\* dimension raises when no date is valid.
BuildDimensions(r) ==
    /\ pc[r] = "Loaded"
    /\ IF NoValidDates(df_raw[r])
       THEN /\ error' = [error EXCEPT ![r] = "NoValidDatesError"]
            /\ Goto(r, "Failed")
            /\ UNCHANGED <<dim_date, dim_item, dim_buyer>>
       ELSE /\ dim_date' = [dim_date EXCEPT ![r] = build_date_dimension(df_raw[r])]
            /\ dim_item' = [dim_item EXCEPT ![r] = load_item_dimension(df_raw[r], config[r])]
            /\ dim_buyer' = [dim_buyer EXCEPT ![r] = load_buyer_dimension(df_raw[r])]
            /\ Goto(r, "Dimensioned")
            /\ UNCHANGED error
    /\ UNCHANGED <<db, seqno, tx, ops, connected, df_validated, rejected, deltas, inputs>>

\* Mutant of Validate: the dimension candidates are written to the warehouse
\* before the threshold is checked.
ValidateAfterDimensionLoad(r) ==
    /\ pc[r] = "Dimensioned"
    /\ db' = [db EXCEPT !["dim_buyer"] = @ \o Stored("dim_buyer", dim_buyer[r], seqno["dim_buyer"])]
    /\ seqno' = [seqno EXCEPT !["dim_buyer"] = @ + Len(dim_buyer[r])]
    /\ LET res == apply_validations(df_raw[r], config[r])
       IN IF res.raised
          THEN /\ error' = [error EXCEPT ![r] = "ValidationThresholdExceededError"]
               /\ Goto(r, "Failed")
               /\ UNCHANGED <<df_validated, rejected>>
          ELSE /\ df_validated' = [df_validated EXCEPT ![r] = res.df_cleaned]
               /\ rejected' = [rejected EXCEPT ![r] = res.rejected]
               /\ Goto(r, "Validated")
               /\ UNCHANGED error
    /\ UNCHANGED <<tx, ops, connected, dim_date, dim_item, dim_buyer, deltas, inputs>>

\* etl_pipeline.py:101-111
Validate(r) ==
    /\ pc[r] = "Dimensioned"
    /\ LET res == apply_validations(df_raw[r], config[r])
       IN IF res.raised
          THEN /\ error' = [error EXCEPT ![r] = "ValidationThresholdExceededError"]
               /\ Goto(r, "Failed")
               /\ UNCHANGED <<df_validated, rejected>>
          ELSE /\ df_validated' = [df_validated EXCEPT ![r] = res.df_cleaned]
               /\ rejected' = [rejected EXCEPT ![r] = res.rejected]
               /\ Goto(r, "Validated")
               /\ UNCHANGED error
    /\ UNCHANGED <<db, seqno, tx, ops, connected, dim_date, dim_item, dim_buyer,
                   deltas, inputs>>

\* etl_pipeline.py:113-121
DryRun(r) ==
    /\ pc[r] = "Validated"
    /\ IsDryRun(config[r])
    /\ Goto(r, "DryRunComplete")
    /\ UNCHANGED <<db, seqno, tx, ops, connected, error, artifacts, deltas, inputs>>

\* Mutant of Connect: the fact load is called right after the transaction is
\* opened, ahead of the three dimension blocks.
ConnectLoadsFactFirst(r) ==
    /\ pc[r] = "Validated"
    /\ ~IsDryRun(config[r])
    /\ connected' = [connected EXCEPT ![r] = TRUE]
    /\ Goto(r, "load_fact")
    /\ UNCHANGED <<db, seqno, tx, ops, error, artifacts, deltas, inputs>>

\* etl_pipeline.py:124-136: connect and open the transaction.
Connect(r) ==
    /\ pc[r] = "Validated"
    /\ ~IsDryRun(config[r])
    /\ connected' = [connected EXCEPT ![r] = TRUE]
    /\ Goto(r, "read_dates")
    /\ UNCHANGED <<db, seqno, tx, ops, error, artifacts, deltas, inputs>>

\* etl_pipeline.py:138-145
ReadDates(r) ==
    /\ pc[r] = "read_dates"
    /\ new_dates' = [new_dates EXCEPT ![r] =
          NewRows(dim_date[r], SelectColumn(ReadSql(r, "dim_date"), "full_date"),
                  "full_date")]
    /\ Issue(r, "read", "dim_date")
    /\ Goto(r, "write_dates")
    /\ UNCHANGED <<db, seqno, tx, connected, error, artifacts, new_items, new_buyers,
                   inputs>>

\* etl_pipeline.py:146-150
WriteDates(r) ==
    /\ pc[r] = "write_dates"
    /\ IF new_dates[r] # <<>>
       THEN ToSql(r, "dim_date", new_dates[r])
       ELSE UNCHANGED <<tx, seqno, ops>>
    /\ Goto(r, "read_items")
    /\ UNCHANGED <<db, connected, error, artifacts, deltas, inputs>>

\* etl_pipeline.py:153-158
ReadItems(r) ==
    /\ pc[r] = "read_items"
    /\ new_items' = [new_items EXCEPT ![r] =
          NewRows(dim_item[r], SelectColumn(ReadSql(r, "dim_item"), "item_code"),
                  "item_code")]
    /\ Issue(r, "read", "dim_item")
    /\ Goto(r, "write_items")
    /\ UNCHANGED <<db, seqno, tx, connected, error, artifacts, new_dates, new_buyers,
                   inputs>>

\* etl_pipeline.py:159-163
WriteItems(r) ==
    /\ pc[r] = "write_items"
    /\ IF new_items[r] # <<>>
       THEN ToSql(r, "dim_item", new_items[r])
       ELSE UNCHANGED <<tx, seqno, ops>>
    /\ Goto(r, "read_buyers")
    /\ UNCHANGED <<db, connected, error, artifacts, deltas, inputs>>

\* etl_pipeline.py:166-171
ReadBuyers(r) ==
    /\ pc[r] = "read_buyers"
    /\ new_buyers' = [new_buyers EXCEPT ![r] =
          NewRows(dim_buyer[r], SelectColumn(ReadSql(r, "dim_buyer"), "buyer_id"),
                  "buyer_id")]
    /\ Issue(r, "read", "dim_buyer")
    /\ Goto(r, "write_buyers")
    /\ UNCHANGED <<db, seqno, tx, connected, error, artifacts, new_dates, new_items,
                   inputs>>

\* etl_pipeline.py:172-176
WriteBuyers(r) ==
    /\ pc[r] = "write_buyers"
    /\ IF new_buyers[r] # <<>>
       THEN ToSql(r, "dim_buyer", new_buyers[r])
       ELSE UNCHANGED <<tx, seqno, ops>>
    /\ Goto(r, "load_fact")
    /\ UNCHANGED <<db, connected, error, artifacts, deltas, inputs>>

\* etl_pipeline.py:179 and helpers.py:137-178, load_fact_sales: read the
\* three dimension tables, resolve the keys, append the fact rows (the append
\* is issued also when no row is left).
LoadFactSales(r) ==
    /\ pc[r] = "load_fact"
    /\ LET fact == BuildFact(df_validated[r], ReadSql(r, "dim_date"),
                             ReadSql(r, "dim_item"), ReadSql(r, "dim_buyer"))
       IN /\ tx' = [tx EXCEPT ![r]["fact_sales"] = @ \o Stored("fact_sales", fact, 0)]
          /\ ops' = [ops EXCEPT ![r] = @ \o
                        << <<"read", "dim_date">>, <<"read", "dim_item">>,
                           <<"read", "dim_buyer">>, <<"append", "fact_sales">> >>]
    /\ Goto(r, "commit")
    /\ UNCHANGED <<db, seqno, connected, error, artifacts, deltas, inputs>>

\* Mutant of Commit: the tables written by the run are replaced by the rows of
\* the run (to_sql with if_exists="replace").
CommitReplace(r) ==
    /\ pc[r] = "commit"
    /\ db' = [t \in Tables |-> IF tx[r][t] # <<>> THEN tx[r][t] ELSE db[t]]
    /\ Goto(r, "Persisted")
    /\ UNCHANGED <<seqno, tx, ops, connected, error, artifacts, deltas, inputs>>

\* Mutant of Commit: the storage skips an appended dimension row whose natural
\* key is already committed (INSERT ... ON CONFLICT DO NOTHING).
CommitIgnoringConflicts(r) ==
    /\ pc[r] = "commit"
    /\ db' = [t \in Tables |->
                IF t \in DimTables
                THEN db[t] \o SelectSeq(tx[r][t],
                         LAMBDA row : \A i \in 1..Len(db[t]) :
                             db[t][i][NaturalKey(t)] # row[NaturalKey(t)])
                ELSE db[t] \o tx[r][t]]
    /\ Goto(r, "Persisted")
    /\ UNCHANGED <<seqno, tx, ops, connected, error, artifacts, deltas, inputs>>

\* etl_pipeline.py:136,181: leaving the `with engine.begin()` block commits.
Commit(r) ==
    /\ pc[r] = "commit"
    /\ db' = [t \in Tables |-> db[t] \o tx[r][t]]
    /\ Goto(r, "Persisted")
    /\ UNCHANGED <<seqno, tx, ops, connected, error, artifacts, deltas, inputs>>

\* The stages of run_etl inside the `with engine.begin() as conn:` block.
TransactionStages ==
    {"read_dates", "write_dates", "read_items", "write_items", "read_buyers",
     "write_buyers", "load_fact", "commit"}

\* Mutant of FailInTransaction: the rows appended so far stay in the warehouse
\* when the block is left by an exception (writes issued on an autocommit
\* connection).
FailAfterPartialCommit(r) ==
    /\ pc[r] \in TransactionStages
    /\ db' = [t \in Tables |-> db[t] \o tx[r][t]]
    /\ tx' = [tx EXCEPT ![r] = EmptyTables]
    /\ error' = [error EXCEPT ![r] = "StorageError"]
    /\ Goto(r, "Failed")
    /\ UNCHANGED <<seqno, ops, connected, artifacts, deltas, inputs>>

\* etl_pipeline.py:136-179: a read_sql or to_sql call (or the commit itself)
\* raises; the `with engine.begin()` block is left by the exception, which
\* rolls the transaction back, and run_etl propagates the exception. The
\* sequences behind the surrogate keys are not rolled back.
FailInTransaction(r) ==
    /\ pc[r] \in TransactionStages
    /\ tx' = [tx EXCEPT ![r] = EmptyTables]
    /\ error' = [error EXCEPT ![r] = "StorageError"]
    /\ Goto(r, "Failed")
    /\ UNCHANGED <<db, seqno, ops, connected, artifacts, deltas, inputs>>

Step(r) ==
    \/ StartRun(r)
    \/ BuildDimensions(r)
    \/ Validate(r)
    \/ DryRun(r)
    \/ Connect(r)
    \/ ReadDates(r)
    \/ WriteDates(r)
    \/ ReadItems(r)
    \/ WriteItems(r)
    \/ ReadBuyers(r)
    \/ WriteBuyers(r)
    \/ LoadFactSales(r)
    \/ Commit(r)
    \/ FailInTransaction(r)

\* Runs serialized by the caller (external mutual exclusion).
Next == \E r \in SerialProcs : Step(r)

Spec == Init /\ [][Next]_vars

\* ------------------------------------------------------------------------
\* apply_validations on its own: any input frame, any configuration
\* ------------------------------------------------------------------------
\* final_revenue and overall_revenue: balanced; off by one cent; revenue
\* unbalanced only; overall unbalanced only.
RevenuePairs == {<<90, 99>>, <<91, 99>>, <<95, 104>>, <<90, 101>>}

\* final_quantity and refunded_item_count (purchased_item_count is 1):
\* balanced; balanced with a positive refund count; unbalanced.
QuantityPairs == {<<1, 0>>, <<2, 1>>, <<2, 0>>}

ValPool ==
    { RawRow(Some(1), Some(1), <<"A">>, Some(10), <<"x">>, <<"a">>, <<"a">>, Some(1),
             [BalancedMeasures EXCEPT !.final_revenue = rv[1],
                                      !.overall_revenue = rv[2],
                                      !.final_quantity = qt[1],
                                      !.refunded_item_count = qt[2]])
        : rv \in RevenuePairs, qt \in QuantityPairs }

ValInputs == {WithRangeIndex(rows) : rows \in SeqsUpTo(ValPool, MaxValRows)}

ValConfigs ==
    [item_attributes : {"mode"},
     canonicalize_category : {TRUE},
     dry_run : {FALSE},
     checks : [revenue_balance : BOOLEAN, overall_balance : BOOLEAN,
               quantity_balance : BOOLEAN, refunded_nonpositive : BOOLEAN],
     tolerance : {0, 1},
     max_error_rate : {[num |-> 0, den |-> 1], [num |-> 1, den |-> 2],
                       [num |-> 1, den |-> 1]}]

\* The state of a run right before etl_pipeline.py:101, for any frame and
\* configuration handed to apply_validations.
InitValidate ==
    /\ db = EmptyTables
    /\ seqno = [t \in DimTables |-> 0]
    /\ IdleRuns
    /\ \E raw \in ValInputs, cfg \in ValConfigs :
          /\ df_raw = [r \in Procs |-> IF r \in SerialProcs THEN raw ELSE <<>>]
          /\ config = [r \in Procs |-> IF r \in SerialProcs THEN cfg ELSE SeedConfig]
    /\ pc = [r \in Procs |-> IF r \in SerialProcs THEN "Dimensioned" ELSE "Idle"]
    /\ dim_date = [r \in Procs |->
          IF NoValidDates(df_raw[r]) THEN <<>> ELSE build_date_dimension(df_raw[r])]
    /\ dim_item = [r \in Procs |-> load_item_dimension(df_raw[r], config[r])]
    /\ dim_buyer = [r \in Procs |-> load_buyer_dimension(df_raw[r])]
    /\ df_validated = [r \in Procs |-> <<>>]
    /\ rejected = [r \in Procs |-> <<>>]
    /\ db_at_start = [r \in Procs |-> db]

NextValidate == \E r \in SerialProcs : Validate(r)

SpecValidate == InitValidate /\ [][NextValidate]_vars

\* ------------------------------------------------------------------------
\* The dimension builders on their own: any dates, any item attributes
\* ------------------------------------------------------------------------
\* Exports that differ in the date only: absent, or a day of the month.
DatePool ==
    { RawRow(Some(1), Some(1), <<"A">>, Some(10), <<"x">>, <<"a">>, <<"a">>, d,
             BalancedMeasures)
        : d \in {None, Some(1), Some(2), Some(4), Some(7)} }

\* item_name, category and version of a row. The most frequent name (y),
\* category (a) and version (a) of the three together come from no single
\* row; categories a and A are the same after canonicalization.
AttributeTriples ==
    { << <<"x">>, <<"a">>, <<"a">> >>,
      << <<"y">>, <<"a">>, <<"b">> >>,
      << <<"y">>, <<"A">>, <<"a">> >> }

\* Exports that differ in the item columns: item A with every attribute triple
\* and item_id absent, 10 or 20; item B with item_id absent, 10 or 20.
ItemPool ==
    { RawRow(Some(1), Some(1), <<"A">>, id, t[1], t[2], t[3], Some(1), BalancedMeasures)
        : id \in {None, Some(10), Some(20)}, t \in AttributeTriples }
    \cup
    { RawRow(Some(1), Some(1), <<"B">>, id, <<"x">>, <<"a">>, <<"a">>, Some(1),
             BalancedMeasures)
        : id \in {None, Some(10), Some(20)} }

DimInputs ==
    {WithRangeIndex(rows) : rows \in SeqsUpTo(DatePool, MaxDimRows)}
    \cup {WithRangeIndex(rows) : rows \in SeqsUpTo(ItemPool, MaxDimRows)}

DimConfigs ==
    [item_attributes : {"mode", "first-occurrence"},
     canonicalize_category : BOOLEAN,
     dry_run : {TRUE},
     checks : {AllChecks},
     tolerance : {1},
     max_error_rate : {[num |-> 1, den |-> 2]}]

\* The state of a run right before etl_pipeline.py:86, for any frame and
\* configuration handed to the dimension builders.
InitDimensions ==
    /\ db = EmptyTables
    /\ seqno = [t \in DimTables |-> 0]
    /\ IdleRuns
    /\ \E raw \in DimInputs, cfg \in DimConfigs :
          /\ df_raw = [r \in Procs |-> IF r \in SerialProcs THEN raw ELSE <<>>]
          /\ config = [r \in Procs |-> IF r \in SerialProcs THEN cfg ELSE SeedConfig]
    /\ pc = [r \in Procs |-> IF r \in SerialProcs THEN "Loaded" ELSE "Idle"]
    /\ dim_date = [r \in Procs |-> <<>>]
    /\ dim_item = [r \in Procs |-> <<>>]
    /\ dim_buyer = [r \in Procs |-> <<>>]
    /\ df_validated = [r \in Procs |-> <<>>]
    /\ rejected = [r \in Procs |-> <<>>]
    /\ db_at_start = [r \in Procs |-> db]

NextDimensions == \E r \in SerialProcs : BuildDimensions(r)

SpecDimensions == InitDimensions /\ [][NextDimensions]_vars

\* ------------------------------------------------------------------------
\* Two invocations of run_etl against the same warehouse, no mutual exclusion
\* ------------------------------------------------------------------------
\* Exports whose rows carry every key: two sales of item A and one unbalanced
\* sale of item B.
ConcPool ==
    {row \in RawPool : ~IsNull(row.transaction_id) /\ ~IsNull(row.buyer_id)
                          /\ ~IsNull(row.item_id) /\ ~IsNull(row.date)}

ConcInputs == {WithRangeIndex(rows) : rows \in SeqsUpTo(ConcPool, MaxConcRows)}

\* Both invocations have loaded their export (etl_pipeline.py:66-81) under
\* the same configuration file; each reads a transaction-isolated view of the
\* warehouse (ReadSql) and the storage has no uniqueness constraint (Commit).
InitConc ==
    /\ db \in InitialWarehouses
    /\ seqno = [t \in DimTables |-> Len(db[t])]
    /\ IdleRuns
    /\ df_raw \in [Procs -> ConcInputs]
    /\ \E cfg \in PipelineConfigs : config = [r \in Procs |-> cfg]
    /\ pc = [r \in Procs |-> "Loaded"]
    /\ dim_date = [r \in Procs |-> <<>>]
    /\ dim_item = [r \in Procs |-> <<>>]
    /\ dim_buyer = [r \in Procs |-> <<>>]
    /\ df_validated = [r \in Procs |-> <<>>]
    /\ rejected = [r \in Procs |-> <<>>]
    /\ db_at_start = [r \in Procs |-> db]

\* Every stage of run_etl after the load of the inputs.
RunStep(r) ==
    \/ BuildDimensions(r)
    \/ Validate(r)
    \/ DryRun(r)
    \/ Connect(r)
    \/ ReadDates(r)
    \/ WriteDates(r)
    \/ ReadItems(r)
    \/ WriteItems(r)
    \/ ReadBuyers(r)
    \/ WriteBuyers(r)
    \/ LoadFactSales(r)
    \/ Commit(r)
    \/ FailInTransaction(r)

NextConc == \E r \in Procs : RunStep(r)

SpecConc == InitConc /\ [][NextConc]_vars

\* ------------------------------------------------------------------------
\* Properties
\* ------------------------------------------------------------------------
AllTablesEmpty(tables) == \A t \in Tables : tables[t] = <<>>

AfterDatesRead ==
    {"write_dates", "read_items", "write_items", "read_buyers", "write_buyers",
     "load_fact", "commit", "Persisted"}

AfterItemsRead ==
    {"write_items", "read_buyers", "write_buyers", "load_fact", "commit", "Persisted"}

AfterBuyersRead == {"write_buyers", "load_fact", "commit", "Persisted"}

\* The natural keys among the rows of a frame.
KeysOf(rows, key) == {rows[i][key] : i \in 1..Len(rows)}

\* The rows of the open transaction without the warehouse-assigned key.
Unkeyed(rows, table) == [i \in 1..Len(rows) |-> DropColumns(rows[i], {KeyColumn(table)})]

\* The candidates whose natural key is not among the persisted keys.
NotPersisted(candidates, persisted, key) ==
    SelectSeq(candidates, LAMBDA c : c[key] \notin KeysOf(persisted, key))

\* C1: a persist run that repeats the previous persist run (same raw input,
\* same configuration, no writer in between) appends zero rows to every
\* warehouse table.
C1_SecondRunAppendsNothing ==
    \A r \in Procs : (pc[r] = "Persisted" /\ rerun[r]) => AllTablesEmpty(tx[r])

\* C2: for each dimension the delta is exactly the candidate rows whose
\* natural key is not among the persisted rows (checked in the state between
\* the read and the append), and what the run appends to the dimension table
\* is that delta.
C2_DeltaIsAntiJoin ==
    \A r \in Procs :
        /\ pc[r] = "write_dates" =>
              new_dates[r] = NotPersisted(dim_date[r], ReadSql(r, "dim_date"), "full_date")
        /\ pc[r] = "write_items" =>
              new_items[r] = NotPersisted(dim_item[r], ReadSql(r, "dim_item"), "item_code")
        /\ pc[r] = "write_buyers" =>
              new_buyers[r] = NotPersisted(dim_buyer[r], ReadSql(r, "dim_buyer"), "buyer_id")
        /\ pc[r] \in AfterDatesRead \ {"write_dates"} =>
              Unkeyed(tx[r]["dim_date"], "dim_date") = new_dates[r]
        /\ pc[r] \in AfterItemsRead \ {"write_items"} =>
              Unkeyed(tx[r]["dim_item"], "dim_item") = new_items[r]
        /\ pc[r] \in AfterBuyersRead \ {"write_buyers"} =>
              Unkeyed(tx[r]["dim_buyer"], "dim_buyer") = new_buyers[r]

\* C2 witness: an item delta that holds some but not all of the candidates.
C2_Witness ==
    \E r \in Procs :
        /\ pc[r] = "read_buyers"
        /\ new_items[r] # <<>>
        /\ Len(new_items[r]) < Len(dim_item[r])
        /\ Len(tx[r]["dim_item"]) = Len(new_items[r])

\* C3: in a run that repeats the previous persist run, the three computed
\* deltas are empty.
C3_RerunDeltaEmpty ==
    \A r \in Procs :
        rerun[r] => /\ new_dates[r] = <<>>
                    /\ new_items[r] = <<>>
                    /\ new_buyers[r] = <<>>

\* C3 witness: a repeating run has read all three dimensions, has candidates
\* in each of them, and the run before it started from a non-empty warehouse
\* and added rows to each dimension.
C3_Witness ==
    \E r \in Procs :
        /\ rerun[r]
        /\ pc[r] = "load_fact"
        /\ dim_date[r] # <<>> /\ dim_item[r] # <<>> /\ dim_buyer[r] # <<>>
        /\ \A t \in DimTables : Len(db[t]) > Len(SeedWarehouse[t])
        /\ \A t \in DimTables :
              SubSeq(db[t], 1, Len(SeedWarehouse[t])) = SeedWarehouse[t]

\* C4: dim_item holds at most one row per item_code.
C4_ItemCodeUnique ==
    \A i, j \in 1..Len(db["dim_item"]) :
        db["dim_item"][i].item_code = db["dim_item"][j].item_code => i = j

\* A check of the validator, stated on one raw row.
PassesRevenue(row, cfg) ==
    Abs(row.final_revenue - (row.total_revenue + row.price_reductions + row.refunds))
        <= cfg.tolerance

PassesOverall(row, cfg) ==
    Abs(row.overall_revenue - (row.final_revenue + row.sales_tax)) <= cfg.tolerance

PassesQuantity(row) ==
    row.final_quantity = row.purchased_item_count + row.refunded_item_count

PassesRefunded(row) == row.refunded_item_count <= 0

PassesEnabled(row, cfg) ==
    /\ cfg.checks.revenue_balance => PassesRevenue(row, cfg)
    /\ cfg.checks.overall_balance => PassesOverall(row, cfg)
    /\ cfg.checks.quantity_balance => PassesQuantity(row)
    /\ cfg.checks.refunded_nonpositive => PassesRefunded(row)

\* C5: when apply_validations returns, the accepted rows are exactly the
\* input rows that pass every enabled check, in input order and without
\* check columns; every input row is in exactly one of accepted and rejected;
\* rejected rows have the original columns only.
C5_AcceptedAndRejectedPartition ==
    \A r \in SerialProcs :
        pc[r] = "Validated" =>
            /\ df_validated[r] = SelectSeq(df_raw[r], LAMBDA row : PassesEnabled(row, config[r]))
            /\ rejected[r] = SelectSeq(df_raw[r], LAMBDA row : ~PassesEnabled(row, config[r]))
            /\ \A i \in 1..Len(df_raw[r]) :
                  (df_raw[r][i] \in Range(df_validated[r]))
                     # (df_raw[r][i] \in Range(rejected[r]))
            /\ Len(df_validated[r]) + Len(rejected[r]) = Len(df_raw[r])
            /\ \A i \in 1..Len(rejected[r]) :
                  DOMAIN rejected[r][i] = RawColumns \cup {"index"}

\* C5 witness: a returned validation with an accepted row, a row rejected by
\* an enabled check and a disabled check that the accepted row would fail.
C5_Witness ==
    \E r \in SerialProcs :
        /\ pc[r] = "Validated"
        /\ df_validated[r] # <<>>
        /\ rejected[r] # <<>>
        /\ ~config[r].checks.refunded_nonpositive
        /\ \E i \in 1..Len(df_validated[r]) : ~PassesRefunded(df_validated[r][i])

\* The number of input rows that fail some enabled check.
DroppedRows(r) ==
    Cardinality({i \in 1..Len(df_raw[r]) : ~PassesEnabled(df_raw[r][i], config[r])})

\* C6: apply_validations raises if and only if dropped / max(total, 1) is
\* strictly greater than max_error_rate; a drop rate equal to max_error_rate
\* returns normally and an empty input never raises.
C6_RaisesIffRateAboveMax ==
    \A r \in SerialProcs :
        pc[r] \in {"Validated", "Failed"} =>
            LET total == Len(df_raw[r])
                lhs   == DroppedRows(r) * config[r].max_error_rate.den
                rhs   == config[r].max_error_rate.num * Max2(total, 1)
            IN /\ (pc[r] = "Failed") <=> (lhs > rhs)
               /\ pc[r] = "Failed" => error[r] = "ValidationThresholdExceededError"
               /\ lhs = rhs => pc[r] = "Validated"
               /\ total = 0 => pc[r] = "Validated"

\* C6 witness: a validation that returned although rows were dropped, the
\* drop rate being exactly max_error_rate.
C6_Witness ==
    \E r \in SerialProcs :
        /\ pc[r] = "Validated"
        /\ DroppedRows(r) > 0
        /\ DroppedRows(r) * config[r].max_error_rate.den
              = config[r].max_error_rate.num * Len(df_raw[r])

\* The candidate's three natural keys occur in the dimension tables the run
\* reads.
Resolves(r, c) ==
    /\ c.date \in KeysOf(ReadSql(r, "dim_date"), "full_date")
    /\ c.item_code \in KeysOf(ReadSql(r, "dim_item"), "item_code")
    /\ c.buyer_id \in KeysOf(ReadSql(r, "dim_buyer"), "buyer_id")

\* The surrogate keys the dimension rows with natural key k carry.
SurrogatesOf(r, table, k) ==
    {Some(d[KeyColumn(table)]) :
        d \in {e \in Range(ReadSql(r, table)) : e[NaturalKey(table)] = k}}

\* f is a fact row made from candidate c.
FactOf(r, f, c) ==
    /\ f.transaction_id = c.transaction_id
    /\ \A m \in MeasureColumns : f[m] = c[m]
    /\ f.date_key \in SurrogatesOf(r, "dim_date", c.date)
    /\ f.item_key \in SurrogatesOf(r, "dim_item", c.item_code)
    /\ f.buyer_key \in SurrogatesOf(r, "dim_buyer", c.buyer_id)

\* C7: after load_fact_sales, a validated candidate has a fact row among the
\* appended rows if and only if its three keys resolve and its
\* transaction_id is not null; every appended row comes from a candidate and
\* has the fact columns only; the run has not failed.
C7_FactIffResolved ==
    \A r \in Procs :
        pc[r] = "commit" =>
            /\ \A i \in 1..Len(df_validated[r]) :
                  LET c == df_validated[r][i]
                  IN (\E f \in Range(tx[r]["fact_sales"]) : FactOf(r, f, c))
                        <=> (Resolves(r, c) /\ ~IsNull(c.transaction_id))
            /\ \A f \in Range(tx[r]["fact_sales"]) :
                  /\ DOMAIN f = FactColumns
                  /\ \E c \in Range(df_validated[r]) : FactOf(r, f, c)
            /\ error[r] = "none"

\* C7 witness: a fact load that kept a candidate and left out every other one,
\* among them one whose keys resolve but whose transaction_id is null.
C7_Witness ==
    \E r \in Procs :
        /\ pc[r] = "commit"
        /\ Len(tx[r]["fact_sales"]) = 1
        /\ \E c \in Range(df_validated[r]) : Resolves(r, c) /\ IsNull(c.transaction_id)

\* C8: after load_fact_sales, every validated candidate with a transaction_id
\* whose date, item_code and buyer_id are natural keys of the run's dimension
\* candidates has a fact row among the appended rows, and the resolver's
\* reads are issued after every dimension append of the run.
C8_FactsSeeNewDimensions ==
    \A r \in Procs :
        pc[r] = "commit" =>
            /\ \A i \in 1..Len(df_validated[r]) :
                  LET c == df_validated[r][i]
                  IN ( /\ ~IsNull(c.transaction_id)
                       /\ c.date \in KeysOf(dim_date[r], "full_date")
                       /\ c.item_code \in KeysOf(dim_item[r], "item_code")
                       /\ c.buyer_id \in KeysOf(dim_buyer[r], "buyer_id") )
                     => \E f \in Range(tx[r]["fact_sales"]) : FactOf(r, f, c)
            /\ LET n == Len(ops[r])
               IN /\ n >= 4
                  /\ ops[r][n] = <<"append", "fact_sales">>
                  /\ \A i \in 1..n :
                        (ops[r][i][1] = "append" /\ ops[r][i][2] \in DimTables) => i < n - 3
                  /\ \A i \in (n - 3)..(n - 1) : ops[r][i][1] = "read"

\* C8 witness: a run that started on an empty warehouse, appended to all
\* three dimensions and then appended a fact row.
C8_Witness ==
    \E r \in Procs :
        /\ pc[r] = "commit"
        /\ AllTablesEmpty(db_at_start[r])
        /\ \A t \in Tables : tx[r][t] # <<>>

\* C9 (state part): a run with dry_run set has no connection, has issued no
\* warehouse operation, has appended nothing, and the warehouse is as it was
\* when the run started.
DryRunTouchesNothing ==
    \A r \in SerialProcs :
        (pc[r] # "Idle" /\ config[r].dry_run) =>
            /\ ~connected[r]
            /\ ops[r] = <<>>
            /\ AllTablesEmpty(tx[r])
            /\ db = db_at_start[r]

\* C9 (step part): with dry_run set the step that leaves Validated ends in
\* DryRunComplete, and DryRunComplete is entered from Validated only.
DryRunStep ==
    \A r \in SerialProcs :
        /\ (pc[r] = "Validated" /\ config[r].dry_run /\ pc'[r] # pc[r])
              => pc'[r] = "DryRunComplete"
        /\ (pc'[r] = "DryRunComplete" /\ pc[r] # "DryRunComplete")
              => (pc[r] = "Validated" /\ config[r].dry_run)

\* C9: when dry_run is set the run goes from Validated to DryRunComplete and
\* ends there, without a connection, a read or an append, the warehouse
\* unchanged.
C9_DryRunNoWarehouseAccess == [](DryRunTouchesNothing) /\ [][DryRunStep]_vars

\* C9 witness: a dry run completed on a non-empty warehouse with validated
\* rows and dimension candidates at hand.
C9_Witness ==
    \E r \in SerialProcs :
        /\ pc[r] = "DryRunComplete"
        /\ df_validated[r] # <<>> /\ dim_item[r] # <<>>
        /\ ~AllTablesEmpty(db)

\* C10: a run that failed with no valid dates or with the validation
\* threshold exceeded has no connection, has issued no append, and every
\* warehouse table is as it was when the run started.
C10_EarlyFailureAppendsNothing ==
    \A r \in SerialProcs :
        (pc[r] = "Failed"
           /\ error[r] \in {"NoValidDatesError", "ValidationThresholdExceededError"}) =>
            /\ ~connected[r]
            /\ \A i \in 1..Len(ops[r]) : ops[r][i][1] # "append"
            /\ AllTablesEmpty(tx[r])
            /\ db = db_at_start[r]

\* C10 witness: a run failed on the validation threshold after building
\* dimension candidates that the warehouse does not hold.
C10_Witness ==
    \E r \in SerialProcs :
        /\ pc[r] = "Failed"
        /\ error[r] = "ValidationThresholdExceededError"
        /\ NotPersisted(dim_item[r], db["dim_item"], "item_code") # <<>>

\* Position of a table in the load order of run_etl.
LoadRank(table) ==
    CASE table = "dim_date" -> 1
      [] table = "dim_item" -> 2
      [] table = "dim_buyer" -> 3
      [] table = "fact_sales" -> 4

\* The positions of the log of run r that hold the operation op.
PositionsOf(r, op) == {i \in 1..Len(ops[r]) : ops[r][i][1] = op}

\* The stages at which the append to a table has been passed.
AfterAppend(table) ==
    CASE table = "dim_date" -> AfterDatesRead \ {"write_dates"}
      [] table = "dim_item" -> AfterItemsRead \ {"write_items"}
      [] table = "dim_buyer" -> AfterBuyersRead \ {"write_buyers"}
      [] table = "fact_sales" -> {"commit", "Persisted"}

\* C11: within one persist-mode run the appends are issued in the order
\* dim_date, dim_item, dim_buyer, fact_sales (each table at most once), and
\* whenever the append to fact_sales has been issued, the reconciliation read
\* of each of the three dimension tables and every dimension append of the run
\* precede it, the reads in the order dim_date, dim_item, dim_buyer.
C11_AppendOrder ==
    \A r \in Procs :
        /\ \A i, j \in PositionsOf(r, "append") :
              i < j => LoadRank(ops[r][i][2]) < LoadRank(ops[r][j][2])
        /\ \A i \in PositionsOf(r, "append") :
              (pc[r] \in AfterAppend(ops[r][i][2]) \/ pc[r] = "Failed")
        /\ \A i \in PositionsOf(r, "append") :
              ops[r][i][2] = "fact_sales" =>
                 /\ \A j \in PositionsOf(r, "append") : j <= i
                 /\ \E a, b, c \in PositionsOf(r, "read") :
                       /\ a < b /\ b < c /\ c < i - 3
                       /\ ops[r][a][2] = "dim_date"
                       /\ ops[r][b][2] = "dim_item"
                       /\ ops[r][c][2] = "dim_buyer"
                       /\ \A j \in PositionsOf(r, "append") :
                             /\ ops[r][j][2] = "dim_date" => a < j /\ j < b
                             /\ ops[r][j][2] = "dim_item" => b < j /\ j < c
                             /\ ops[r][j][2] = "dim_buyer" => c < j

\* A run that appended to all four tables and committed.
C11_Witness ==
    \E r \in Procs :
        /\ pc[r] = "Persisted"
        /\ {ops[r][i][2] : i \in PositionsOf(r, "append")} = Tables
        /\ tx[r]["fact_sales"] # <<>>

\* C12: the appends of one run are committed together or not at all. Until a
\* run has left the transaction block normally the warehouse equals its state
\* before the run; this includes a run that failed inside the block after it
\* had appended dimension rows. A run that left the block normally has
\* committed exactly the rows it appended, in one step.
C12_SingleTransaction ==
    \A r \in SerialProcs :
        /\ pc[r] # "Persisted" => db = db_at_start[r]
        /\ pc[r] = "Persisted" =>
              db = [t \in Tables |-> db_at_start[r][t] \o tx[r][t]]
        /\ pc[r] = "Failed" /\ error[r] = "StorageError" => tx[r] = EmptyTables

\* A run that appended dimension rows and then failed while loading facts.
C12_Witness ==
    \E r \in SerialProcs :
        /\ pc[r] = "Failed"
        /\ error[r] = "StorageError"
        /\ {ops[r][i][2] : i \in PositionsOf(r, "append")} = DimTables
        /\ db = db_at_start[r]

\* The rows run r found missing from a dimension table and appended.
Delta(r, table) ==
    CASE table = "dim_date" -> new_dates[r]
      [] table = "dim_item" -> new_items[r]
      [] table = "dim_buyer" -> new_buyers[r]

\* The number of rows of a table that carry the natural key k.
KeyCount(rows, table, k) ==
    Cardinality({i \in 1..Len(rows) : rows[i][NaturalKey(table)] = k})

\* A natural key that both runs found missing from a dimension table.
StaleKeys(table) ==
    KeysOf(Delta(1, table), NaturalKey(table))
        \cap KeysOf(Delta(2, table), NaturalKey(table))

\* C13: two concurrent runs that both found the same natural key missing from
\* a dimension table (each read the table before the other's append was
\* committed) and both committed leave that key at least twice in the table.
C13_StaleReadsDuplicate ==
    (\A r \in Procs : pc[r] = "Persisted") =>
        \A t \in DimTables : \A k \in StaleKeys(t) : KeyCount(db[t], t, k) >= 2

\* Both runs committed, the table held no row of the key before, both runs
\* appended a row of it, and the table holds the key twice.
C13_Witness ==
    /\ \A r \in Procs : pc[r] = "Persisted"
    /\ \E t \in DimTables : \E k \in StaleKeys(t) :
          /\ \A r \in Procs : KeyCount(db_at_start[r][t], t, k) = 0
          /\ \A r \in Procs : <<"append", t>> \in Range(ops[r])
          /\ KeyCount(db[t], t, k) = 2

\* The frame a run hands to to_sql for a table.
Candidates(r, table) ==
    CASE table = "dim_date" -> dim_date[r]
      [] table = "dim_item" -> dim_item[r]
      [] table = "dim_buyer" -> dim_buyer[r]

IsPrefix(s, t) == Len(s) <= Len(t) /\ SubSeq(t, 1, Len(s)) = s

\* C14: every row persisted before a run started is still in its table, at
\* its position and with its natural key, attributes and surrogate key, at
\* every point of the run and after it (the tables only grow at the end); and
\* the frames the run appends carry no value for the table's own surrogate
\* key: dimension frames have no date_key, item_key or buyer_key column, and a
\* fact frame has exactly the fact columns.
C14_AppendOnly ==
    \A r \in SerialProcs :
        /\ \A t \in Tables : IsPrefix(db_at_start[r][t], db[t])
        /\ \A t \in DimTables :
              /\ IsPrefix(db_at_start[r][t], ReadSql(r, t))
              /\ \A i \in 1..Len(Candidates(r, t)) :
                    KeyColumn(t) \notin DOMAIN Candidates(r, t)[i]
              /\ \A i \in 1..Len(Delta(r, t)) :
                    KeyColumn(t) \notin DOMAIN Delta(r, t)[i]
              /\ Unkeyed(tx[r][t], t) \in {<<>>, Delta(r, t)}
        /\ \A i \in 1..Len(tx[r]["fact_sales"]) :
              DOMAIN tx[r]["fact_sales"][i] = FactColumns

\* A run on a warehouse that held rows in every table has committed new rows
\* to every table.
C14_Witness ==
    \E r \in SerialProcs :
        /\ pc[r] = "Persisted"
        /\ \A t \in Tables : db_at_start[r][t] # <<>> /\ tx[r][t] # <<>>
        /\ \A t \in Tables : Len(db[t]) > Len(db_at_start[r][t])

\* The days of the non-absent date cells of a raw frame.
ObservedDays(df) == {d \in 1..30 : \E i \in 1..Len(df) : df[i].date = Some(d)}

\* C15: for an input with at least one non-absent date the date dimension
\* has (max_date - min_date) + 1 rows, holds every day from min_date to
\* max_date exactly once, and holds no other day.
C15_DateDimensionContiguous ==
    \A r \in SerialProcs :
        pc[r] = "Dimensioned" =>
            \A lo, hi \in ObservedDays(df_raw[r]) :
                (\A d \in ObservedDays(df_raw[r]) : lo <= d /\ d <= hi) =>
                    /\ Len(dim_date[r]) = hi - lo + 1
                    /\ \A d \in lo..hi :
                          Cardinality({i \in 1..Len(dim_date[r]) :
                                          dim_date[r][i].full_date = Some(d)}) = 1
                    /\ \A i \in 1..Len(dim_date[r]) :
                          \E d \in lo..hi : dim_date[r][i].full_date = Some(d)

\* A frame with an absent date and two observed days with a gap between them.
C15_Witness ==
    \E r \in SerialProcs :
        /\ pc[r] = "Dimensioned"
        /\ \E i \in 1..Len(df_raw[r]) : IsNull(df_raw[r][i].date)
        /\ Cardinality(ObservedDays(df_raw[r])) = 2
        /\ Len(dim_date[r]) > 2

\* The attribute columns resolved by vote.
VotedColumns == {"item_name", "category", "version"}

\* The cells of a column in the rows of one item_code, in original row order,
\* as the strategy sees them (category canonicalized when configured).
GroupCells(r, code, col) ==
    Column(SelectSeq(ItemFrame(df_raw[r], config[r]), LAMBDA row : row.item_code = code),
           col)

Occurrences(series, v) == Cardinality({i \in 1..Len(series) : series[i] = v})

\* The values that occur most often in a series.
MostFrequent(series) ==
    {v \in Range(series) : \A w \in Range(series) :
        Occurrences(series, v) >= Occurrences(series, w)}

FirstIndex(series, v) ==
    CHOOSE i \in 1..Len(series) :
        series[i] = v /\ \A j \in 1..(i - 1) : series[j] # v

\* The run has built its item dimension under the mode strategy.
ModeBuilt(r) == pc[r] = "Dimensioned" /\ config[r].item_attributes = "mode"

\* C16 as stated: under the mode strategy each of item_name, category and
\* version of an item row is a most frequent value of its item_code group,
\* and among the most frequent values the one that occurs first in row order.
C16_ModeFirstOnTie ==
    \A r \in SerialProcs :
        ModeBuilt(r) =>
            \A k \in 1..Len(dim_item[r]) : \A col \in VotedColumns :
                LET series == GroupCells(r, dim_item[r][k].item_code, col)
                    v == dim_item[r][k][col]
                IN /\ v \in MostFrequent(series)
                   /\ \A w \in MostFrequent(series) :
                         FirstIndex(series, v) <= FirstIndex(series, w)

\* C16 (amended): under the mode strategy each of item_name, category and
\* version of an item row is, independently, a most frequent value of its
\* item_code group, and among the most frequent values the smallest one in
\* string order.
C16_ModeSmallestOnTie ==
    \A r \in SerialProcs :
        ModeBuilt(r) =>
            \A k \in 1..Len(dim_item[r]) : \A col \in VotedColumns :
                LET series == GroupCells(r, dim_item[r][k].item_code, col)
                    v == dim_item[r][k][col]
                IN /\ v \in MostFrequent(series)
                   /\ \A w \in MostFrequent(series) : w = v \/ CellLess(v, w)

\* A group whose names tie, the first-occurring name is not the smallest, and
\* the item row carries the smallest.
C16_Witness ==
    \E r \in SerialProcs :
        /\ ModeBuilt(r)
        /\ \E k \in 1..Len(dim_item[r]) :
              LET series == GroupCells(r, dim_item[r][k].item_code, "item_name")
              IN /\ Cardinality(MostFrequent(series)) = 2
                 /\ series[1] # dim_item[r][k].item_name
                 /\ \A w \in MostFrequent(series) :
                       w = dim_item[r][k].item_name \/ CellLess(dim_item[r][k].item_name, w)

\* The item codes of the raw frame of a run.
CodesOf(r) == {df_raw[r][i].item_code : i \in 1..Len(df_raw[r])}

\* The rows of the item dimension of a run that carry the item code.
ItemRowsOf(r, code) == {k \in 1..Len(dim_item[r]) : dim_item[r][k].item_code = code}

\* C17 as stated: under the mode strategy a group has an item row exactly
\* when the item_id of its first row is not null, and the row carries the
\* item_id of that first row.
C17_ItemIdOfFirstRow ==
    \A r \in SerialProcs :
        ModeBuilt(r) =>
            \A code \in CodesOf(r) :
                LET ids == GroupCells(r, code, "item_id")
                IN /\ ItemRowsOf(r, code) # {} <=> ~IsNull(ids[1])
                   /\ \A k \in ItemRowsOf(r, code) : dim_item[r][k].item_id = ids[1]

\* C17 (amended): under the mode strategy the item_id of a group is the first
\* non-null item_id of the group in original row order, and a group is
\* dropped from the item dimension exactly when every row of the group has a
\* null item_id.
C17_ItemIdFirstNonNull ==
    \A r \in SerialProcs :
        ModeBuilt(r) =>
            \A code \in CodesOf(r) :
                LET ids == GroupCells(r, code, "item_id")
                IN /\ ItemRowsOf(r, code) = {} <=> \A i \in 1..Len(ids) : IsNull(ids[i])
                   /\ Cardinality(ItemRowsOf(r, code)) <= 1
                   /\ \A k \in ItemRowsOf(r, code) :
                         \E i \in 1..Len(ids) :
                             /\ ~IsNull(ids[i])
                             /\ dim_item[r][k].item_id = ids[i]
                             /\ \A j \in 1..(i - 1) : IsNull(ids[j])

\* A group whose first row has a null item_id and whose later rows carry two
\* different item_ids: the group is kept, with the earlier of the two.
C17_Witness ==
    \E r \in SerialProcs :
        /\ ModeBuilt(r)
        /\ \E code \in CodesOf(r) :
              LET ids == GroupCells(r, code, "item_id")
              IN /\ Len(ids) = 3
                 /\ IsNull(ids[1]) /\ ~IsNull(ids[2]) /\ ~IsNull(ids[3])
                 /\ ids[2] # ids[3]
                 /\ \E k \in ItemRowsOf(r, code) : dim_item[r][k].item_id = ids[2]

\* C18: the number of rows load_fact_sales appends to fact_sales does not
\* exceed the number of validated candidates passed in.
C18_AtMostOneFactPerCandidate ==
    \A r \in Procs :
        pc[r] \in {"commit", "Persisted"} =>
            Len(tx[r]["fact_sales"]) <= Len(df_validated[r])

====
